---- MODULE Spec2Model ----
(***************************************************************************)
(* Model of microservice_complexity_analysis.py: the main driver with the  *)
(* history walker get_commits (specification Spec), the aggregation of     *)
(* analyze_service (SpecAgg), the manifest walk of count_dependencies      *)
(* (SpecDeps) and the endpoint path normalisation of count_endpoints       *)
(* (SpecNorm).                                                             *)
(*                                                                         *)
(* Strings the code computes with are sequences of one-character strings.  *)
(* A datetime is a record [day, tod]: day is the proleptic Gregorian       *)
(* ordinal (date.toordinal()), tod the time of day.  A 'YYYY-MM-DD' string *)
(* is represented by its ordinal, which orders the same way.  git reads    *)
(* such a string as that day at the wall-clock time of day of the call,    *)
(* when the year is one it knows (1970 to 2099); any other date it reads   *)
(* as a cut-off that has nothing to do with the string.                    *)
(***************************************************************************)
EXTENDS Integers, Sequences, FiniteSets

VARIABLES
    \* ---- environment of one run of the driver
    now,            \* datetime.utcnow() as read by get_commits
    frequency,      \* args.frequency
    periods,        \* args.periods
    log,            \* committer dates of the repository, in rev-list order (newest first)
    tips,           \* candidate branch -> index of its tip in log, 0 when absent
    head,           \* commit the working tree is checked out at
    \* ---- __main__
    pc, err, original_head, rows, idx, checked_out,
    \* ---- get_commits
    delta, start_date, branch, gc_i, commits,
    rl_failed,      \* whether a git rev-list call of get_commits has raised
    git_tod,        \* wall-clock time of day the last git rev-list ran at
    \* ---- analyze_service
    content, pom_modules, paths, ag_pc, ag_k,
    total_eps, total_calls, all_eps, all_calls, all_deps, row,
    \* ---- count_dependencies
    dirs, cd_pc, cd_d, cd_f, root_is_str, deps,
    \* ---- endpoint normalisation
    nm_match, nm_once, nm_twice, nm_pc

mainVars == <<now, frequency, periods, log, tips, head, pc, err, original_head,
              rows, idx, checked_out, delta, start_date, branch, gc_i, commits,
              rl_failed, git_tod>>
aggVars  == <<content, pom_modules, paths, ag_pc, ag_k, total_eps, total_calls,
              all_eps, all_calls, all_deps, row>>
depVars  == <<dirs, cd_pc, cd_d, cd_f, root_is_str, deps>>
normVars == <<nm_match, nm_once, nm_twice, nm_pc>>
vars     == <<mainVars, aggVars, depVars, normVars>>

(***************************************************************************)
(* Bounds                                                                  *)
(***************************************************************************)
MaxPeriods == 2
MaxLog     == 2
MaxLen     == 4
MaxModules == 2
MaxFiles   == 2

\* Sequences over S of length lo..hi
SeqsOf(S, lo, hi) == UNION {[1..n -> S] : n \in lo..hi}

(***************************************************************************)
(* Dates                                                                   *)
(***************************************************************************)
DaysPerWeek == 7

\* times of day: earlier and later
TimesOfDay == {0, 1}

\* Monday 2026-10-26 (ordinal 739915) and Thursday 2026-10-29, at two times of day
Nows == {[day |-> 739915, tod |-> 0], [day |-> 739918, tod |-> 1]}

\* committer dates around the target dates of both frequencies, one of them
\* late on a target day
CommitTimes == { [day |-> 739915 - 430, tod |-> 0],
                 [day |-> 739915 - 10,  tod |-> 0],
                 [day |-> 739915,       tod |-> 1] }

\* timedelta(weeks = w)
timedelta_weeks(w) == DaysPerWeek * w

\* datetime.weekday(): Monday is 0
weekday(dt) == (dt.day + 6) % 7

\* the dates a datetime holds: 0001-01-01 (ordinal 1) to 9999-12-31;
\* arithmetic that leaves them raises OverflowError
in_datetime_range(dt) == dt.day >= 1 /\ dt.day <= 3652059

\* datetime - timedelta and datetime + timedelta (whole days: tod is kept)
dt_minus(dt, days) == [dt EXCEPT !.day = @ - days]
dt_plus(dt, days)  == [dt EXCEPT !.day = @ + days]

\* strftime('%Y-%m-%d'): the time of day is dropped
strftime(dt) == dt.day

\* an exception that nothing catches ends the run
Abort(e) ==
    /\ pc' = "aborted"
    /\ err' = e

(***************************************************************************)
(* get_commits                                                             *)
(***************************************************************************)
CANDIDATES == <<"main", "master", "develop">>

\* line 155: timedelta(weeks=1 if frequency == "weekly" else 30)
delta_of(freq) == timedelta_weeks(IF freq = "weekly" THEN 1 ELSE 30)

\* line 156 without the floor to the start of the week
start_date_unfloored(n, freq, per, d) == dt_minus(n, d * per)

\* line 156
start_date_of(n, freq, per, d) ==
    IF freq = "weekly"
    THEN dt_minus(dt_minus(n, weekday(n)), d * per)
    ELSE dt_minus(n, d * per)

\* lines 158-165: position in CANDIDATES of the first branch that rev-parse
\* verifies, 0 when the for loop runs out (the else clause)
find_branch(t) ==
    LET found == {k \in 1..Len(CANDIDATES) : t[CANDIDATES[k]] # 0}
    IN  IF found = {} THEN 0
        ELSE CHOOSE k \in found : \A m \in found : k <= m

\* line 167
target_date(start, k, d) == strftime(dt_plus(start, k * d))

\* the 'YYYY-MM-DD' strings git reads as that date: 1970-01-01 (ordinal
\* 719163) to 2099-12-31
git_reads(dte) == dte >= 719163 /\ dte <= 766644

\* what git can take a date it does not read for: the cut-off it computes
\* follows from the digits and the day the command runs, not from the date
\* meant (git 2.39 cuts --before 1969-11-27 in 2011), and may fall anywhere
\* among the commits or before all of them
Misreadings == CommitTimes \cup {[day |-> 719163, tod |-> 0]}

\* git's reading of --before 'YYYY-MM-DD', run at time of day t: that day at
\* t, or the misreading g of a date outside the years it knows
cutoff(dte, t, g) == IF git_reads(dte) THEN [day |-> dte, tod |-> t] ELSE g

\* a commit is kept when its committer date is not later than the cut-off
not_after(c, cut) == c.day < cut.day \/ (c.day = cut.day /\ c.tod <= cut.tod)

\* git rev-list -1 --before date branch, for git's cut-off cut: the first
\* commit in rev-list order, from the branch tip on, that is kept; 0 for
\* empty output
rev_list(lg, tip, cut) ==
    LET hits == {k \in tip..Len(lg) : not_after(lg[k], cut)}
    IN  IF hits = {} THEN 0
        ELSE CHOOSE k \in hits : \A m \in hits : k <= m

\* lines 154-165: line 156 raises OverflowError when start_date would lie
\* before 0001-01-01, ahead of the branch probe; otherwise the probe picks
\* the branch or get_commits returns []
GcStart ==
    /\ pc = "gc_start"
    /\ LET sd == start_date_of(now, frequency, periods, delta_of(frequency))
           b  == find_branch(tips)
       IN  IF ~in_datetime_range(sd)
           THEN /\ delta' = delta_of(frequency)
                /\ Abort("overflow")
                /\ UNCHANGED <<start_date, branch>>
           ELSE /\ delta' = delta_of(frequency)
                /\ start_date' = sd
                /\ UNCHANGED err
                /\ IF b = 0
                   THEN /\ branch' = ""
                        /\ pc' = "loop"          \* return []
                   ELSE /\ branch' = CANDIDATES[b]
                        /\ pc' = "gc_loop"
    /\ commits' = <<>>
    /\ gc_i' = 0
    /\ UNCHANGED <<now, frequency, periods, log, tips, head, original_head,
                   rows, idx, checked_out, rl_failed, git_tod>>
    /\ UNCHANGED <<aggVars, depVars, normVars>>

\* lines 166-171: one iteration, rev-list exits 0
GcIter ==
    /\ pc = "gc_loop"
    /\ gc_i <= periods
    /\ \E t \in TimesOfDay, g \in Misreadings :
          LET date   == target_date(start_date, gc_i, delta)
              commit == rev_list(log, tips[branch], cutoff(date, t, g))
          IN  /\ commits' = IF commit # 0 THEN Append(commits, <<commit, date>>)
                             ELSE commits
              /\ git_tod' = t
    /\ gc_i' = gc_i + 1
    /\ UNCHANGED <<now, frequency, periods, log, tips, head, pc, err,
                   original_head, rows, idx, checked_out, delta, start_date,
                   branch, rl_failed>>
    /\ UNCHANGED <<aggVars, depVars, normVars>>

\* lines 172-173: one iteration, rev-list raises CalledProcessError
GcIterFail ==
    /\ pc = "gc_loop"
    /\ gc_i <= periods
    /\ rl_failed' = TRUE
    /\ gc_i' = gc_i + 1
    /\ UNCHANGED <<now, frequency, periods, log, tips, head, pc, err,
                   original_head, rows, idx, checked_out, delta, start_date,
                   branch, commits, git_tod>>
    /\ UNCHANGED <<aggVars, depVars, normVars>>

\* line 174
GcReturn ==
    /\ pc = "gc_loop"
    /\ gc_i > periods
    /\ pc' = "loop"
    /\ UNCHANGED <<now, frequency, periods, log, tips, head, err, original_head,
                   rows, idx, checked_out, delta, start_date, branch, gc_i,
                   commits, rl_failed, git_tod>>
    /\ UNCHANGED <<aggVars, depVars, normVars>>

(***************************************************************************)
(* __main__                                                                *)
(***************************************************************************)
HEADER == <<"Service", "Date", "Endpoints", "Dependencies",
            "InterServiceCommunications", "DependencyList", "EndpointList",
            "InterServiceCommunicationsList">>

\* line 226, rev-parse HEAD exits 0
CaptureHead ==
    /\ pc = "start"
    /\ original_head' = head
    /\ pc' = "open"
    /\ UNCHANGED <<now, frequency, periods, log, tips, head, err, rows, idx,
                   checked_out, delta, start_date, branch, gc_i, commits,
                   rl_failed, git_tod>>
    /\ UNCHANGED <<aggVars, depVars, normVars>>

\* line 226, rev-parse HEAD raises
CaptureHeadFail ==
    /\ pc = "start"
    /\ Abort("head")
    /\ UNCHANGED <<now, frequency, periods, log, tips, head, original_head, rows,
                   idx, checked_out, delta, start_date, branch, gc_i, commits,
                   rl_failed, git_tod>>
    /\ UNCHANGED <<aggVars, depVars, normVars>>

\* lines 228-231: the output is opened and the header row written
OpenOutput ==
    /\ pc = "open"
    /\ rows' = <<HEADER>>
    /\ pc' = "gc_start"
    /\ UNCHANGED <<now, frequency, periods, log, tips, head, err, original_head,
                   idx, checked_out, delta, start_date, branch, gc_i, commits,
                   rl_failed, git_tod>>
    /\ UNCHANGED <<aggVars, depVars, normVars>>

\* lines 228-231: open() or the header's writerow raises
OpenOutputFail ==
    /\ pc = "open"
    /\ Abort("sink_open")
    /\ UNCHANGED <<now, frequency, periods, log, tips, head, original_head, rows,
                   idx, checked_out, delta, start_date, branch, gc_i, commits,
                   rl_failed, git_tod>>
    /\ UNCHANGED <<aggVars, depVars, normVars>>

\* line 233, git checkout exits 0
Checkout ==
    /\ pc = "loop"
    /\ idx <= Len(commits)
    /\ head' = commits[idx][1]
    /\ checked_out' = Append(checked_out, commits[idx][1])
    /\ pc' = "analyze"
    /\ UNCHANGED <<now, frequency, periods, log, tips, err, original_head, rows,
                   idx, delta, start_date, branch, gc_i, commits, rl_failed, git_tod>>
    /\ UNCHANGED <<aggVars, depVars, normVars>>

\* line 233, git checkout exits non-zero and check=True raises.  git may
\* exit non-zero before touching the tree or after it has moved HEAD (the
\* exit status of a post-checkout hook is the command's).
CheckoutFail ==
    /\ pc = "loop"
    /\ idx <= Len(commits)
    /\ \/ UNCHANGED <<head, checked_out>>
       \/ /\ head' = commits[idx][1]
          /\ checked_out' = Append(checked_out, commits[idx][1])
    /\ Abort("checkout")
    /\ UNCHANGED <<now, frequency, periods, log, tips, original_head, rows,
                   idx, delta, start_date, branch, gc_i, commits,
                   rl_failed, git_tod>>
    /\ UNCHANGED <<aggVars, depVars, normVars>>

\* line 234: analyze_service returns, its row written (lines 206-215)
Analyze ==
    /\ pc = "analyze"
    /\ rows' = Append(rows, <<head, commits[idx][2]>>)
    /\ idx' = idx + 1
    /\ pc' = "loop"
    /\ UNCHANGED <<now, frequency, periods, log, tips, head, err, original_head,
                   checked_out, delta, start_date, branch, gc_i, commits,
                   rl_failed, git_tod>>
    /\ UNCHANGED <<aggVars, depVars, normVars>>

\* line 234: analyze_service raises, in its prints (lines 195-204, "analysis")
\* or in writerow (lines 206-215, "sink_row")
AnalyzeRaise ==
    /\ pc = "analyze"
    /\ \E e \in {"analysis", "sink_row"} : Abort(e)
    /\ UNCHANGED <<now, frequency, periods, log, tips, head, original_head, rows,
                   idx, checked_out, delta, start_date, branch, gc_i, commits,
                   rl_failed, git_tod>>
    /\ UNCHANGED <<aggVars, depVars, normVars>>

\* lines 228-234: the for loop runs out and closing the file, which flushes
\* the buffered rows, raises
LoopExitFail ==
    /\ pc = "loop"
    /\ idx > Len(commits)
    /\ Abort("sink_close")
    /\ UNCHANGED <<now, frequency, periods, log, tips, head, original_head, rows,
                   idx, checked_out, delta, start_date, branch, gc_i, commits,
                   rl_failed, git_tod>>
    /\ UNCHANGED <<aggVars, depVars, normVars>>

\* lines 228-234: the for loop runs out and the with block closes the file
LoopExit ==
    /\ pc = "loop"
    /\ idx > Len(commits)
    /\ pc' = "restore"
    /\ UNCHANGED <<now, frequency, periods, log, tips, head, err, original_head,
                   rows, idx, checked_out, delta, start_date, branch, gc_i,
                   commits, rl_failed, git_tod>>
    /\ UNCHANGED <<aggVars, depVars, normVars>>

\* line 236, git checkout exits 0
Restore ==
    /\ pc = "restore"
    /\ head' = original_head
    /\ pc' = "restored"
    /\ UNCHANGED <<now, frequency, periods, log, tips, err, original_head, rows,
                   idx, checked_out, delta, start_date, branch, gc_i, commits,
                   rl_failed, git_tod>>
    /\ UNCHANGED <<aggVars, depVars, normVars>>

\* line 236, git checkout exits non-zero and check=True raises, before
\* touching the tree or after it has moved HEAD
RestoreFail ==
    /\ pc = "restore"
    /\ head' \in {head, original_head}
    /\ Abort("restore")
    /\ UNCHANGED <<now, frequency, periods, log, tips, original_head, rows,
                   idx, checked_out, delta, start_date, branch, gc_i, commits,
                   rl_failed, git_tod>>
    /\ UNCHANGED <<aggVars, depVars, normVars>>

\* line 238: the closing print
PrintComplete ==
    /\ pc = "restored"
    /\ pc' = "done"
    /\ UNCHANGED <<now, frequency, periods, log, tips, head, err, original_head,
                   rows, idx, checked_out, delta, start_date, branch, gc_i,
                   commits, rl_failed, git_tod>>
    /\ UNCHANGED <<aggVars, depVars, normVars>>

\* line 238: the closing print raises (stdout cannot be written)
PrintCompleteFail ==
    /\ pc = "restored"
    /\ Abort("stdout")
    /\ UNCHANGED <<now, frequency, periods, log, tips, head, original_head, rows,
                   idx, checked_out, delta, start_date, branch, gc_i, commits,
                   rl_failed, git_tod>>
    /\ UNCHANGED <<aggVars, depVars, normVars>>

MainIdle ==
    /\ now = [day |-> 0, tod |-> 0] /\ frequency = "" /\ periods = 0
    /\ log = <<>> /\ tips = <<>> /\ head = 0
    /\ pc = "idle" /\ err = "" /\ original_head = 0 /\ rows = <<>> /\ idx = 0
    /\ checked_out = <<>> /\ delta = 0 /\ start_date = [day |-> 0, tod |-> 0]
    /\ branch = "" /\ gc_i = 0 /\ commits = <<>> /\ rl_failed = FALSE
    /\ git_tod = 0

\* period counts that take the monthly target dates out of the years git
\* reads (99 periods of 210 days before 2026-10 end in 1969) and out of the
\* dates a datetime holds (3524 periods end before 0001-01-01)
LongPeriods == {99, 3524}

MainInit ==
    /\ now \in Nows
    /\ log \in SeqsOf(CommitTimes, 1, MaxLog)
    /\ \/ /\ frequency \in {"weekly", "monthly"}
          /\ periods \in 0..MaxPeriods
          \* a candidate branch is absent, at the newest commit or at the oldest
          /\ tips \in [{CANDIDATES[k] : k \in 1..Len(CANDIDATES)}
                          -> {0, 1, Len(log)}]
       \/ /\ frequency = "monthly"
          /\ periods \in LongPeriods
          \* no candidate branch, or main alone at the newest commit
          /\ tips \in {[c \in {CANDIDATES[k] : k \in 1..Len(CANDIDATES)} |->
                           IF c = "main" THEN m ELSE 0] : m \in {0, 1}}
    /\ head \in {1, Len(log)}
    /\ pc = "start" /\ err = "" /\ original_head = 0 /\ rows = <<>> /\ idx = 1
    /\ checked_out = <<>> /\ delta = 0 /\ start_date = [day |-> 0, tod |-> 0]
    /\ branch = "" /\ gc_i = 0 /\ commits = <<>> /\ rl_failed = FALSE
    /\ git_tod = 0

(***************************************************************************)
(* count_endpoints: path normalisation and formatting                      *)
(***************************************************************************)
RECURSIVE lstrip_slash(_)
lstrip_slash(s) ==
    IF s # <<>> /\ Head(s) = "/" THEN lstrip_slash(Tail(s)) ELSE s

RECURSIVE rstrip_slash(_)
rstrip_slash(s) ==
    IF s # <<>> /\ s[Len(s)] = "/"
    THEN rstrip_slash(SubSeq(s, 1, Len(s) - 1))
    ELSE s

\* str.lstrip("/") in place of str.strip("/")
strip_slash_left(s) == lstrip_slash(s)

\* str.strip("/")
strip_slash(s) == rstrip_slash(lstrip_slash(s))

\* line 132: "/" + match.strip("/")
normalize_path(match) == <<"/">> \o strip_slash(match)

\* line 135: f"{m} {p}"
format_endpoint(e) == e[1] \o <<" ">> \o e[2]

GET  == <<"G", "E", "T">>
POST == <<"P", "O", "S", "T">>

PathChars == {"/", "u", "s"}

\* the three spellings of the users path
UsersSpellings == { <<"/", "u", "s", "e", "r", "s", "/">>,
                    <<"u", "s", "e", "r", "s">>,
                    <<"/", "u", "s", "e", "r", "s">> }

\* what the capturing group ([^"]+) can hold: a non-empty string
Matches == SeqsOf(PathChars, 1, MaxLen) \cup UsersSpellings

\* line 132 applied to a captured match
NormOnce ==
    /\ nm_pc = "raw"
    /\ nm_once' = normalize_path(nm_match)
    /\ nm_pc' = "once"
    /\ UNCHANGED <<nm_match, nm_twice>>
    /\ UNCHANGED <<mainVars, aggVars, depVars>>

\* line 132 applied to its own result
NormTwice ==
    /\ nm_pc = "once"
    /\ nm_twice' = normalize_path(nm_once)
    /\ nm_pc' = "twice"
    /\ UNCHANGED <<nm_match, nm_once>>
    /\ UNCHANGED <<mainVars, aggVars, depVars>>

NormIdle ==
    nm_match = <<>> /\ nm_once = <<>> /\ nm_twice = <<>> /\ nm_pc = "idle"

NormInit ==
    nm_match \in Matches /\ nm_once = <<>> /\ nm_twice = <<>> /\ nm_pc = "raw"

(***************************************************************************)
(* analyze_service                                                         *)
(***************************************************************************)
ModuleNames == {"a", "b"}

EpMatches == { <<GET, <<"x">> >>, <<GET, <<"/", "x", "/">> >>, <<POST, <<"x">> >> }

\* what the files under one directory contribute: endpoint rule matches
\* (method, captured text), call rule matches, manifest dependencies
Contents == [eps : SUBSET EpMatches, calls : SUBSET {"fetch("},
             deps : SUBSET {"express"}]

RootContents == { [eps |-> {}, calls |-> {}, deps |-> {}],
                  [eps |-> {<<GET, <<"x">> >>}, calls |-> {"fetch("},
                   deps |-> {"express"}] }

\* os.walk(path): a module directory holds its own files, the repository root
\* holds its own files and every module directory
Walk(c, path) ==
    IF path = "."
    THEN [eps   |-> UNION {c[p].eps : p \in DOMAIN c},
          calls |-> UNION {c[p].calls : p \in DOMAIN c},
          deps  |-> UNION {c[p].deps : p \in DOMAIN c}]
    ELSE c[path]

\* lines 121-135: (len(unique), the formatted endpoints)
count_endpoints(c, path) ==
    LET unique == {<<m[1], normalize_path(m[2])>> : m \in Walk(c, path).eps}
    IN  <<Cardinality(unique), {format_endpoint(e) : e \in unique}>>

\* lines 137-151
count_inter_service_calls(c, path) ==
    LET matches == Walk(c, path).calls
    IN  <<Cardinality(matches), matches>>

\* lines 58-119 as analyze_service sees it: the set returned for one path
dependencies_under(c, path) == Walk(c, path).deps

\* lines 177-182
AgStart ==
    /\ ag_pc = "start"
    /\ paths' = IF pom_modules # <<>> THEN pom_modules ELSE <<".">>
    /\ total_eps' = 0 /\ total_calls' = 0
    /\ all_eps' = {} /\ all_calls' = {} /\ all_deps' = {}
    /\ ag_k' = 1
    /\ ag_pc' = "loop"
    /\ UNCHANGED <<content, pom_modules, row>>
    /\ UNCHANGED <<mainVars, depVars, normVars>>

\* lines 184-193: one module path
AgModule ==
    /\ ag_pc = "loop"
    /\ ag_k <= Len(paths)
    /\ LET path == paths[ag_k]
           ep   == count_endpoints(content, path)
           cl   == count_inter_service_calls(content, path)
           dp   == dependencies_under(content, path)
       IN  /\ total_eps' = total_eps + ep[1]
           /\ total_calls' = total_calls + cl[1]
           /\ all_eps' = all_eps \cup ep[2]
           /\ all_calls' = all_calls \cup cl[2]
           /\ all_deps' = all_deps \cup dp
    /\ ag_k' = ag_k + 1
    /\ UNCHANGED <<content, pom_modules, paths, ag_pc, row>>
    /\ UNCHANGED <<mainVars, depVars, normVars>>

\* lines 195-215: the row handed to csv_writer.writerow
AgWrite ==
    /\ ag_pc = "loop"
    /\ ag_k > Len(paths)
    /\ row' = [endpoints    |-> total_eps,
               dependencies |-> Cardinality(all_deps),
               calls        |-> Cardinality(all_calls),
               dep_list     |-> all_deps,
               ep_list      |-> all_eps,
               call_list    |-> all_calls]
    /\ ag_pc' = "written"
    /\ UNCHANGED <<content, pom_modules, paths, ag_k, total_eps, total_calls,
                   all_eps, all_calls, all_deps>>
    /\ UNCHANGED <<mainVars, depVars, normVars>>

NoRow == [endpoints |-> 0, dependencies |-> 0, calls |-> 0, dep_list |-> {},
          ep_list |-> {}, call_list |-> {}]

AggIdle ==
    /\ content = <<>> /\ pom_modules = <<>> /\ paths = <<>> /\ ag_pc = "idle"
    /\ ag_k = 0 /\ total_eps = 0 /\ total_calls = 0 /\ all_eps = {}
    /\ all_calls = {} /\ all_deps = {} /\ row = NoRow

AggInit ==
    /\ \E m \in [ModuleNames -> Contents], r \in RootContents :
          content = [p \in ModuleNames \cup {"."} |->
                        IF p = "." THEN r ELSE m[p]]
    /\ pom_modules \in SeqsOf(ModuleNames, 0, MaxModules)
    /\ paths = <<>> /\ ag_pc = "start" /\ ag_k = 0
    /\ total_eps = 0 /\ total_calls = 0 /\ all_eps = {} /\ all_calls = {}
    /\ all_deps = {} /\ row = NoRow

(***************************************************************************)
(* count_dependencies                                                      *)
(***************************************************************************)
EXCLUDE_DIRS == { <<"n","o","d","e","_","m","o","d","u","l","e","s">>,
                  <<"f","r","o","n","t","e","n","d">>,
                  <<"c","l","i","e","n","t">>,
                  <<"w","e","b">>,
                  <<"u","i">>,
                  <<"d","i","s","t">>,
                  <<"b","u","i","l","d">>,
                  <<"_","_","m","o","c","k","s","_","_">>,
                  <<"t","e","s","t">> }

\* Python's `excl in path` on strings
IsSubstring(t, s) ==
    \E k \in 1..(Len(s) - Len(t) + 1) : SubSeq(s, k, k + Len(t) - 1) = t

\* lines 47-48
is_excluded_path(path) == \E excl \in EXCLUDE_DIRS : IsSubstring(excl, path)

\* A manifest file as count_dependencies meets it: its name, whether its
\* parser got past opening the document (for pom.xml: ET.parse returned), and
\* the coordinates its branch adds to deps before it ends or raises.
FileKinds ==
    { [name |-> "pom.xml",          parsed |-> TRUE,  adds |-> {"g:a:1"}],
      [name |-> "pom.xml",          parsed |-> TRUE,  adds |-> {}],
      [name |-> "pom.xml",          parsed |-> FALSE, adds |-> {}],
      [name |-> "package.json",     parsed |-> TRUE,  adds |-> {"express"}],
      [name |-> "package.json",     parsed |-> FALSE, adds |-> {}],
      [name |-> "requirements.txt", parsed |-> TRUE,  adds |-> {"flask"}] }

\* a directory listing: no two entries share a name
Listings ==
    {l \in SeqsOf(FileKinds, 0, MaxFiles) :
        \A x, y \in 1..Len(l) : x # y => l[x].name # l[y].name}

SVC == <<"s","v","c">>
WEB == <<"w","e","b">>
API == <<"/","a","p","i">>
GUI == <<"/","g","u","i">>

\* the walked trees: a top directory and one subdirectory
Trees ==
    {<<[path |-> top, files |-> l1], [path |-> top \o sub, files |-> l2]>> :
        top \in {SVC, WEB}, sub \in {API, GUI}, l1 \in Listings, l2 \in Listings}

\* line 60: os.walk yields the next directory and binds root to its path
CdEnterDir ==
    /\ cd_pc = "dir"
    /\ cd_d <= Len(dirs)
    /\ ~is_excluded_path(dirs[cd_d].path)
    /\ root_is_str' = TRUE
    /\ cd_f' = 1
    /\ cd_pc' = "files"
    /\ UNCHANGED <<dirs, cd_d, deps>>
    /\ UNCHANGED <<mainVars, aggVars, normVars>>

\* lines 61-62
CdSkipDir ==
    /\ cd_pc = "dir"
    /\ cd_d <= Len(dirs)
    /\ is_excluded_path(dirs[cd_d].path)
    /\ root_is_str' = TRUE
    /\ cd_d' = cd_d + 1
    /\ UNCHANGED <<dirs, cd_pc, cd_f, deps>>
    /\ UNCHANGED <<mainVars, aggVars, normVars>>

\* lines 63-118: one file of the current directory.  os.path.join(root, file)
\* raises TypeError, and the file is skipped, once root no longer names the
\* directory: line 73 rebinds root to the parsed document's root element.
CdFile ==
    /\ cd_pc = "files"
    /\ cd_f <= Len(dirs[cd_d].files)
    /\ LET file == dirs[cd_d].files[cd_f]
       IN  IF ~root_is_str
           THEN UNCHANGED <<root_is_str, deps>>
           ELSE IF file.name = "pom.xml"
           THEN /\ root_is_str' = ~file.parsed
                /\ deps' = deps \cup file.adds
           ELSE /\ deps' = deps \cup file.adds
                /\ UNCHANGED root_is_str
    /\ cd_f' = cd_f + 1
    /\ UNCHANGED <<dirs, cd_pc, cd_d>>
    /\ UNCHANGED <<mainVars, aggVars, normVars>>

\* line 63: the files of the directory run out
CdLeaveDir ==
    /\ cd_pc = "files"
    /\ cd_f > Len(dirs[cd_d].files)
    /\ cd_d' = cd_d + 1
    /\ cd_pc' = "dir"
    /\ UNCHANGED <<dirs, cd_f, root_is_str, deps>>
    /\ UNCHANGED <<mainVars, aggVars, normVars>>

\* line 119
CdReturn ==
    /\ cd_pc = "dir"
    /\ cd_d > Len(dirs)
    /\ cd_pc' = "returned"
    /\ UNCHANGED <<dirs, cd_d, cd_f, root_is_str, deps>>
    /\ UNCHANGED <<mainVars, aggVars, normVars>>

DepIdle ==
    /\ dirs = <<>> /\ cd_pc = "idle" /\ cd_d = 0 /\ cd_f = 0
    /\ root_is_str = TRUE /\ deps = {}

DepInit ==
    /\ dirs \in Trees
    /\ cd_pc = "dir" /\ cd_d = 1 /\ cd_f = 0 /\ root_is_str = TRUE /\ deps = {}

(***************************************************************************)
(* Specifications                                                          *)
(***************************************************************************)
Init == MainInit /\ AggIdle /\ DepIdle /\ NormIdle

Next ==
    \/ CaptureHead \/ CaptureHeadFail
    \/ OpenOutput \/ OpenOutputFail
    \/ GcStart \/ GcIter \/ GcIterFail \/ GcReturn
    \/ Checkout \/ CheckoutFail
    \/ Analyze \/ AnalyzeRaise
    \/ LoopExit \/ LoopExitFail
    \/ Restore \/ RestoreFail
    \/ PrintComplete \/ PrintCompleteFail

Spec == Init /\ [][Next]_vars

InitAgg == MainIdle /\ AggInit /\ DepIdle /\ NormIdle
NextAgg == AgStart \/ AgModule \/ AgWrite
SpecAgg == InitAgg /\ [][NextAgg]_vars

InitDeps == MainIdle /\ AggIdle /\ DepInit /\ NormIdle
NextDeps == CdEnterDir \/ CdSkipDir \/ CdFile \/ CdLeaveDir \/ CdReturn
SpecDeps == InitDeps /\ [][NextDeps]_vars

InitNorm == MainIdle /\ AggIdle /\ DepIdle /\ NormInit
NextNorm == NormOnce \/ NormTwice
SpecNorm == InitNorm /\ [][NextNorm]_vars

(***************************************************************************)
(* Properties                                                              *)
(***************************************************************************)
NoBranch == \A k \in 1..Len(CANDIDATES) : tips[CANDIDATES[k]] = 0

\* get_commits has returned
AfterGetCommits ==
    \/ pc \in {"loop", "analyze", "restore", "restored", "done"}
    \/ pc = "aborted" /\ err \notin {"head", "sink_open", "overflow"}

\* get_commits has computed delta and start_date
AfterGcStart == pc = "gc_loop" \/ AfterGetCommits

\* the anchor date: today, or the Monday of this week when weekly
AnchorDay ==
    IF frequency = "weekly" THEN now.day - ((now.day + 6) % 7) ELSE now.day

\* C1: when a run that captured original_head ends, normally or by an
\* exception, the working tree is at original_head.
C1_HeadRestored ==
    (pc \in {"done", "aborted"} /\ err # "head") => head = original_head

\* C2: in the row analyze_service writes, the endpoint, dependency and call
\* counts equal the sizes of the endpoint, dependency and call lists.
C2_CountsMatchSets ==
    ag_pc = "written" =>
        /\ row.endpoints = Cardinality(row.ep_list)
        /\ row.dependencies = Cardinality(row.dep_list)
        /\ row.calls = Cardinality(row.call_list)

\* C3: a failed checkout or a failed analysis of one snapshot never aborts the
\* run.
C3_SnapshotErrorContained ==
    ~(pc = "aborted" /\ err \in {"checkout", "analysis"})

\* C4: when the run aborts on a fatal error (head not determined, output not
\* writable) no checkout of the working tree has happened.
C4_FatalBeforeCheckout ==
    (pc = "aborted" /\ err \in {"head", "sink_open", "sink_row", "sink_close"})
        => checked_out = <<>>

\* C5: with none of main, master, develop present, get_commits returns the
\* empty list without raising, whatever the frequency and the period count,
\* no commit is checked out, no snapshot row is written and the run ends
\* normally: once the output is open nothing aborts it.
C5_NoBranchEndsNormally ==
    NoBranch =>
        /\ AfterGetCommits => commits = <<>>
        /\ pc \notin {"gc_loop", "analyze"}
        /\ checked_out = <<>>
        /\ Len(rows) <= 1
        /\ pc = "aborted" => err \in {"head", "sink_open"}

\* C6 as stated: 0 periods yield exactly 1 snapshot, dated the anchor date.
C6_ZeroPeriodsExactlyOne ==
    (periods = 0 /\ AfterGetCommits) =>
        Len(commits) = 1 /\ commits[1][2] = AnchorDay

\* C6 amended: 0 periods yield at most 1 snapshot, dated the anchor date;
\* there is exactly one precisely when a candidate branch exists, rev-list
\* did not fail and the branch has a commit not later than the anchor date
\* at the time of day rev-list ran at.
C6_ZeroPeriodsAtMostOne ==
    (periods = 0 /\ AfterGetCommits) =>
        /\ Len(commits) <= 1
        /\ Len(commits) = 1 => commits[1][2] = AnchorDay
        /\ Len(commits) = 1 <=>
              /\ ~NoBranch
              /\ ~rl_failed
              /\ \E k \in tips[branch]..Len(log) :
                    \/ log[k].day < AnchorDay
                    \/ log[k].day = AnchorDay /\ log[k].tod <= git_tod

C6_Witness ==
    /\ periods = 0 /\ AfterGetCommits /\ Len(commits) = 1
    /\ frequency = "weekly" /\ AnchorDay # now.day

\* C7: for every period count the list get_commits builds has at most
\* periods+1 entries, its dates never decrease and a later entry is never an
\* older commit of the branch than an earlier one (a smaller position in
\* rev-list order is more recent).
C7_SnapshotsMonotone ==
    /\ Len(commits) <= periods + 1
    /\ \A a, b \in 1..Len(commits) :
          a < b => /\ commits[a][2] <= commits[b][2]
                   /\ commits[b][1] <= commits[a][1]

\* C8: normalising a normalised path changes nothing, and "/users/", "users"
\* and "/users" all normalise to "/users".
C8_NormalizeIdempotent ==
    /\ nm_pc = "twice" => nm_twice = nm_once
    /\ (nm_pc \in {"once", "twice"} /\ nm_match \in UsersSpellings)
          => nm_once = <<"/", "u", "s", "e", "r", "s">>

C8_Witness ==
    /\ nm_pc = "twice"
    /\ nm_match = <<"/", "/", "u", "/">>
    /\ nm_once = <<"/", "u">>

\* C9: the period is 7 days when weekly and 30 days when monthly: monthly
\* target dates are 30 days apart and start_date is the anchor minus
\* 30 * periods days.
C9_PeriodLength ==
    AfterGcStart =>
        /\ delta = IF frequency = "weekly" THEN 7 ELSE 30
        /\ frequency = "monthly" =>
              /\ start_date.day = AnchorDay - 30 * periods
              /\ \A k \in 0..(periods - 1) :
                    target_date(start_date, k + 1, delta)
                        - target_date(start_date, k, delta) = 30

\* C10: count_dependencies returns the union of what every manifest file of
\* every non-excluded directory contributes, whatever the other files do.
C10_UnionOfManifests ==
    cd_pc = "returned" =>
        deps = UNION {dirs[p[1]].files[p[2]].adds :
                        p \in {q \in (1..Len(dirs)) \X (1..MaxFiles) :
                                 /\ ~is_excluded_path(dirs[q[1]].path)
                                 /\ q[2] <= Len(dirs[q[1]].files)}}

====
